---- MODULE Spec2Model ----
(***************************************************************************)
(* Funding-rate monitor: the collector (FundingRateCollector and           *)
(* calculateRates), the retrieval layer (fetchFundingRates with its REST   *)
(* attempt and WebSocket fallback) and the main loop with its timers.      *)
(*                                                                         *)
(* Numbers.  A funding rate is an integer number of millionths (1000 is    *)
(* the rate 0.001); a percentage is an integer number of 1/10000 percent,  *)
(* so rate * 100 (the rate as a percentage) is the same integer.  A        *)
(* settlement timestamp is a positive number of milliseconds counted from  *)
(* a fixed instant.  intervalHours is kept in tenths of an hour (80 is     *)
(* 8.0).  Timers run on a clock of whole seconds.                          *)
(***************************************************************************)
EXTENDS Integers, Sequences, FiniteSets, TLC

VARIABLES
    collector,      \* the FundingRateCollector: fundingRates, previousTimestamps, timestampsChanged
    calc,           \* one call of calculateRates: its arguments and its result
    call,           \* the collector method called last through its interface, and the calls made
    config,         \* push_interval, and the exchanges whose ws_url is set
    pc,             \* where main is suspended
    pairs,          \* topPairs of the running iteration
    idx,            \* fetchFundingRates: position in Object.entries(EXCHANGES)
    pairIdx,        \* fetchFundingRates: position in adjustedPairs (the okx loop)
    attempt,        \* per exchange, what the running call of fetchFundingRates did for it
    closing,        \* WebSocket sessions whose timeout fired and whose socket is still closing
    cycle,          \* the clock new Date() reads: the number of the retrieval cycle
    retries,        \* sendTelegramMessage: the retries left
    sleep,          \* seconds left on the timer main sleeps on (NoTimer when none)
    deferred,       \* the pending 2-second tasks, oldest first: cycle scheduled in, seconds left
    crossRead,      \* the last deferred task that ran: cycle scheduled in, cycle read, message sent
    saveCalls       \* invocations of saveTimestampsCache

vars == <<collector, calc, call, config, pc, pairs, idx, pairIdx, attempt, closing, cycle,
          retries, sleep, deferred, crossRead, saveCalls>>

\* the state of main and of the retrieval layer
mainVars == <<config, pc, pairs, idx, pairIdx, attempt, closing, cycle, retries, sleep,
              deferred, crossRead, saveCalls>>

-----------------------------------------------------------------------------
(* JavaScript values *)

\* null and undefined where a number is expected
Null == -1
Undefined == -2

Max(a, b) == IF a >= b THEN a ELSE b
Abs(a) == IF a < 0 THEN 0 - a ELSE a

\* Math.round(a / b) for a >= 0 and b > 0: the nearest integer, a tie going up
MathRound(a, b) == (2 * a + b) \div (2 * b)

\* parseFloat((a / b).toFixed(1)) in tenths, for a >= 0 and b > 0.  A tie (a / b = x.y5)
\* goes up when the quotient is a binary fraction (x.25, x.75), which are the ties among
\* the intervals used here; other ties fall where the double lies.
toFixed1(a, b) == (20 * a + b) \div (2 * b)

\* an object with no keys
EmptyObject == [k \in {} |-> Null]

\* obj[k], undefined when obj has no key k
Get(obj, k) == IF k \in DOMAIN obj THEN obj[k] ELSE Undefined

\* obj[k] = v
Put(obj, k, v) == [x \in DOMAIN obj \cup {k} |-> IF x = k THEN v ELSE obj[x]]

\* a value in a boolean context, for a number, null or undefined
Truthy(v) == v # Null /\ v # Undefined /\ v # 0

-----------------------------------------------------------------------------
(* Symbols: strings as sequences of characters *)

USDT == <<"U", "S", "D", "T">>

\* the base assets symbol discovery can name
Bases == {<<"B">>, <<"E">>}

-----------------------------------------------------------------------------
(* config.ts *)

\* the exchange names calculateRates knows a default frequency for
KnownExchanges == {"binance", "okx", "bybit", "bitget", "gate"}

\* Object.entries(EXCHANGES), in order
EXCHANGES == <<"binance", "okx">>

ExchangeNames == {EXCHANGES[i] : i \in 1..Len(EXCHANGES)}

\* CONFIG.transaction_fee_percent ?? 0.3: the default, 0.3 %
TRANSACTION_FEE_PERCENT == 3000

-----------------------------------------------------------------------------
(* collector.ts: calculateRates *)

MILLISECONDS_PER_DAY == 24 * 60 * 60 * 1000
MIN_INTERVAL_MS == 1 * 60 * 60 * 1000
MAX_INTERVAL_MS == 24 * 60 * 60 * 1000
MS_PER_HOUR == 60 * 60 * 1000

\* mutants of IntervalAccepted: the bounds taken strictly; the range test left out
IntervalAccepted_Strict(current, previous) ==
    /\ Truthy(current)
    /\ Truthy(previous)
    /\ current > previous
    /\ current - previous > MIN_INTERVAL_MS
    /\ current - previous < MAX_INTERVAL_MS

IntervalAccepted_NoRange(current, previous) ==
    /\ Truthy(current)
    /\ Truthy(previous)
    /\ current > previous

\* the if of lines 401..404: both timestamps truthy, in order, and the interval in range
IntervalAccepted(current, previous) ==
    /\ Truthy(current)
    /\ Truthy(previous)
    /\ current > previous
    /\ current - previous >= MIN_INTERVAL_MS
    /\ current - previous <= MAX_INTERVAL_MS

\* the switch of lines 415..427: frequencyPerDay stays null for a name it does not list
DefaultFrequency(exchange) == IF exchange \in KnownExchanges THEN 3 ELSE Null

\* a number in arithmetic: null counts as 0
Num(v) == IF v = Null THEN 0 ELSE v

\* mutant of Apr: the default frequency where the inferred one belongs
Apr_DefaultFrequency(fundingRate, frequencyPerDay) == fundingRate * 3 * 365

\* line 430: fundingRate * frequencyPerDay * 365 * 100
Apr(fundingRate, frequencyPerDay) == fundingRate * Num(frequencyPerDay) * 365

\* mutant of SingleCycleNetRatePercent: a negative rate is not taken as a receivable
SingleCycleNetRatePercent_Signed(fundingRate, feePercent) == fundingRate - feePercent

\* lines 433, 441..448: the rate as a percentage, or its absolute value when the rate
\* is negative, less the fee
SingleCycleNetRatePercent(fundingRate, feePercent) ==
    LET fundingRatePercent == fundingRate
    IN  IF fundingRate >= 0 THEN fundingRatePercent - feePercent
        ELSE Abs(fundingRatePercent) - feePercent

\* mutant of DailyNetRatePercent: the fee is added for a negative rate
DailyNetRatePercent_FeeAdded(fundingRate, frequencyPerDay, feePercent) ==
    LET dailyFundingRatePercent == fundingRate * Num(frequencyPerDay)
    IN  IF fundingRate >= 0 THEN dailyFundingRatePercent - feePercent
        ELSE dailyFundingRatePercent + feePercent

\* lines 437, 441..449: the daily rate as a percentage, or its absolute value when the
\* rate is negative, less the fee
DailyNetRatePercent(fundingRate, frequencyPerDay, feePercent) ==
    LET dailyFundingRatePercent == fundingRate * Num(frequencyPerDay)
    IN  IF fundingRate >= 0 THEN dailyFundingRatePercent - feePercent
        ELSE Abs(dailyFundingRatePercent) - feePercent

calculateRates(fundingRate, feePercent, exchange, current, previous) ==
    LET accepted == IntervalAccepted(current, previous)
        intervalMs == current - previous
        frequencyPerDay ==
            IF accepted THEN Max(1, MathRound(MILLISECONDS_PER_DAY, intervalMs))
            ELSE DefaultFrequency(exchange)
        intervalHours == IF accepted THEN toFixed1(intervalMs, MS_PER_HOUR) ELSE Null
    IN  [apr |-> Apr(fundingRate, frequencyPerDay),
         singleCycleNetRatePercent |-> SingleCycleNetRatePercent(fundingRate, feePercent),
         dailyNetRatePercent |-> DailyNetRatePercent(fundingRate, frequencyPerDay, feePercent),
         frequencyPerDay |-> frequencyPerDay,
         intervalHours |-> intervalHours]

-----------------------------------------------------------------------------
(* collector.ts: FundingRateCollector *)

\* the settlement timestamps of the model: T0 and T0 + 8 h
T0 == 2 * MS_PER_HOUR
T8 == T0 + 8 * MS_PER_HOUR

\* the constructor: an empty symbol map per exchange of EXCHANGES, the ledger as the
\* cache file holds it
Constructor(cacheFile) ==
    [fundingRates |-> [e \in ExchangeNames |-> EmptyObject],
     previousTimestamps |-> cacheFile,
     timestampsChanged |-> FALSE]

\* previousTimestamps[exchange]?.[symbol]
LedgerEntry(previousTimestamps, exchange, symbol) ==
    IF exchange \in DOMAIN previousTimestamps
    THEN Get(previousTimestamps[exchange], symbol)
    ELSE Undefined

\* mutant of updateRate: the ledger is written and the flag is left as it was
updateRate_NoFlag(c, exchange, symbol, rate, nextFundingTimestamp, now) ==
    LET ledger == IF exchange \in DOMAIN c.previousTimestamps THEN c.previousTimestamps
                  ELSE Put(c.previousTimestamps, exchange, EmptyObject)
        stored == Get(ledger[exchange], symbol)
        r == calculateRates(rate, TRANSACTION_FEE_PERCENT, exchange, nextFundingTimestamp,
                            IF stored = Undefined THEN Null ELSE stored)
        observation == [rate |-> rate, apr |-> r.apr,
                        singleCycleNetRatePercent |-> r.singleCycleNetRatePercent,
                        dailyNetRatePercent |-> r.dailyNetRatePercent,
                        timestamp |-> now, nextFundingTimestamp |-> nextFundingTimestamp,
                        frequencyPerDay |-> r.frequencyPerDay, intervalHours |-> r.intervalHours]
    IN  [fundingRates |-> [c.fundingRates EXCEPT ![exchange] = Put(@, symbol, observation)],
         previousTimestamps |-> [ledger EXCEPT ![exchange] = Put(@, symbol, nextFundingTimestamp)],
         timestampsChanged |-> c.timestampsChanged]

\* mutant of updateRate: an entry the snapshot already has is kept
updateRate_KeepsFirst(c, exchange, symbol, rate, nextFundingTimestamp, now) ==
    IF symbol \in DOMAIN c.fundingRates[exchange]
    THEN [updateRate_NoFlag(c, exchange, symbol, rate, nextFundingTimestamp, now)
              EXCEPT !.fundingRates = c.fundingRates]
    ELSE updateRate_NoFlag(c, exchange, symbol, rate, nextFundingTimestamp, now)

\* updateRate: the observation is computed against the stored timestamp and written to
\* the snapshot; the ledger and the flag change when the stored value is not the new one
updateRate(c, exchange, symbol, rate, nextFundingTimestamp, now) ==
    LET ledger == IF exchange \in DOMAIN c.previousTimestamps THEN c.previousTimestamps
                  ELSE Put(c.previousTimestamps, exchange, EmptyObject)
        stored == Get(ledger[exchange], symbol)
        r == calculateRates(rate, TRANSACTION_FEE_PERCENT, exchange, nextFundingTimestamp,
                            IF stored = Undefined THEN Null ELSE stored)
        observation == [rate |-> rate, apr |-> r.apr,
                        singleCycleNetRatePercent |-> r.singleCycleNetRatePercent,
                        dailyNetRatePercent |-> r.dailyNetRatePercent,
                        timestamp |-> now, nextFundingTimestamp |-> nextFundingTimestamp,
                        frequencyPerDay |-> r.frequencyPerDay, intervalHours |-> r.intervalHours]
    IN  [fundingRates |-> [c.fundingRates EXCEPT ![exchange] = Put(@, symbol, observation)],
         previousTimestamps |->
             IF stored # nextFundingTimestamp
             THEN [ledger EXCEPT ![exchange] = Put(@, symbol, nextFundingTimestamp)]
             ELSE ledger,
         timestampsChanged |-> IF stored # nextFundingTimestamp THEN TRUE ELSE c.timestampsChanged]

\* mutant of clear: the whole collector is rebuilt, the ledger with it
clear_All(c) ==
    [fundingRates |-> [e \in ExchangeNames |-> EmptyObject],
     previousTimestamps |-> EmptyObject,
     timestampsChanged |-> c.timestampsChanged]

\* mutant of clear: the snapshot is left without its exchange keys
clear_NoKeys(c) == [c EXCEPT !.fundingRates = EmptyObject]

\* mutant of clear: nothing is reset
clear_Nothing(c) == c

\* clear: fundingRates is rebuilt with an empty symbol map per exchange of EXCHANGES
clear(c) == [c EXCEPT !.fundingRates = [e \in ExchangeNames |-> EmptyObject]]

\* cleanSymbol (lines 34..38): a '_USDT' or else a 'USDT' at the end is removed, then a
\* '-USDT-SWAP' at the end of what is left
EndsWith(s, suffix) ==
    /\ Len(s) >= Len(suffix)
    /\ SubSeq(s, Len(s) - Len(suffix) + 1, Len(s)) = suffix

\* mutant of cleanSymbol: the suffix of okx is left in place
cleanSymbol_QuoteOnly(symbol) ==
    IF EndsWith(symbol, <<"_">> \o USDT) THEN SubSeq(symbol, 1, Len(symbol) - 5)
    ELSE IF EndsWith(symbol, USDT) THEN SubSeq(symbol, 1, Len(symbol) - 4)
    ELSE symbol

cleanSymbol(symbol) ==
    LET first == IF EndsWith(symbol, <<"_">> \o USDT)
                 THEN SubSeq(symbol, 1, Len(symbol) - 5)
                 ELSE IF EndsWith(symbol, USDT)
                 THEN SubSeq(symbol, 1, Len(symbol) - 4)
                 ELSE symbol
        swap == <<"-">> \o USDT \o <<"-", "S", "W", "A", "P">>
    IN  IF EndsWith(first, swap) THEN SubSeq(first, 1, Len(first) - Len(swap)) ELSE first

\* the elements of a set, one after the other.  The keys of an object come in the order
\* they were first written; the snapshot of the model keeps no such order, and the
\* symbols of an exchange are taken in this fixed one.  The order decides nothing but
\* the place of list entries that the sorts below see as equal.
RECURSIVE SeqOf(_)
SeqOf(S) ==
    IF S = {} THEN <<>>
    ELSE LET x == CHOOSE y \in S : TRUE
         IN  <<x>> \o SeqOf(S \ {x})

RECURSIVE Flatten(_)
Flatten(seqs) == IF seqs = <<>> THEN <<>> ELSE Head(seqs) \o Flatten(Tail(seqs))

\* the loops of lines 232..245: every entry of the snapshot as {exchange, symbol, rate},
\* exchange by exchange
SnapshotList(c) ==
    Flatten([i \in 1..Len(EXCHANGES) |->
                LET symbols == SeqOf(DOMAIN c.fundingRates[EXCHANGES[i]])
                IN  [k \in 1..Len(symbols) |->
                        [exchange |-> EXCHANGES[i], symbol |-> symbols[k],
                         rate |-> c.fundingRates[EXCHANGES[i]][symbols[k]].rate]]])

\* the keys of ratesByCleanedSymbol, in the order they were added
RECURSIVE CleanedSymbols(_, _)
CleanedSymbols(entries, seen) ==
    IF entries = <<>> THEN <<>>
    ELSE LET cleaned == cleanSymbol(Head(entries).symbol)
         IN  IF cleaned \in seen THEN CleanedSymbols(Tail(entries), seen)
             ELSE <<cleaned>> \o CleanedSymbols(Tail(entries), seen \cup {cleaned})

\* the index pairs of the nested loops of lines 257..258: i < j, by i, then by j
IndexPairs(n) ==
    SelectSeq([k \in 1..(n * n) |-> <<((k - 1) \div n) + 1, ((k - 1) % n) + 1>>],
              LAMBDA p : p[1] < p[2])

\* mutant of ExceedsFee: a difference equal to the two fees counts
ExceedsFee_Inclusive(rateDiffPercent, combinedFeePercent) ==
    Abs(rateDiffPercent) >= combinedFeePercent

\* line 266: Math.abs(rateDiffPercent) > combinedFeePercent
ExceedsFee(rateDiffPercent, combinedFeePercent) == Abs(rateDiffPercent) > combinedFeePercent

\* mutant of Opportunity: the legs are the other way round
Opportunity_Swapped(ex1Data, ex2Data, cleanedSym, combinedFeePercent) ==
    LET rateDiffPercent == ex1Data.rate - ex2Data.rate
    IN  [longExchange |-> IF rateDiffPercent > 0 THEN ex1Data.exchange ELSE ex2Data.exchange,
         shortExchange |-> IF rateDiffPercent > 0 THEN ex2Data.exchange ELSE ex1Data.exchange,
         cleanedSymbol |-> cleanedSym,
         netProfitPercent |-> Abs(rateDiffPercent) - combinedFeePercent]

\* lines 263..289: the opportunity pushed for two entries whose difference exceeds the fees
Opportunity(ex1Data, ex2Data, cleanedSym, combinedFeePercent) ==
    LET rateDiffPercent == ex1Data.rate - ex2Data.rate
    IN  [longExchange |-> IF rateDiffPercent > 0 THEN ex2Data.exchange ELSE ex1Data.exchange,
         shortExchange |-> IF rateDiffPercent > 0 THEN ex1Data.exchange ELSE ex2Data.exchange,
         cleanedSymbol |-> cleanedSym,
         netProfitPercent |-> Abs(rateDiffPercent) - combinedFeePercent]

\* lines 252..293 for one key of ratesByCleanedSymbol
GroupOpportunities(ratesList, cleanedSym, combinedFeePercent) ==
    IF Len(ratesList) < 2 THEN <<>>
    ELSE LET hits == SelectSeq(IndexPairs(Len(ratesList)),
                               LAMBDA p : ExceedsFee(ratesList[p[1]].rate - ratesList[p[2]].rate,
                                                     combinedFeePercent))
         IN  [k \in 1..Len(hits) |->
                 Opportunity(ratesList[hits[k][1]], ratesList[hits[k][2]], cleanedSym,
                             combinedFeePercent)]

\* lines 232..293: the opportunities in the order they are pushed
Opportunities(c, feePercent) ==
    LET entries == SnapshotList(c)
        keys == CleanedSymbols(entries, {})
        combinedFeePercent == 2 * feePercent
    IN  Flatten([g \in 1..Len(keys) |->
                    GroupOpportunities(SelectSeq(entries, LAMBDA e : cleanSymbol(e.symbol) = keys[g]),
                                       keys[g], combinedFeePercent)])

\* mutant of SortByNetProfit: no sort
SortByNetProfit_Unsorted(list) == list

\* line 296: sort((a, b) => b.netProfitPercent - a.netProfitPercent), a stable sort
RECURSIVE SortByNetProfit(_)
SortByNetProfit(list) ==
    IF list = <<>> THEN <<>>
    ELSE LET x == list[Len(list)]
             front == SortByNetProfit(SubSeq(list, 1, Len(list) - 1))
             k == Cardinality({i \in 1..Len(front) :
                                  front[i].netProfitPercent >= x.netProfitPercent})
         IN  SubSeq(front, 1, k) \o <<x>> \o SubSeq(front, k + 1, Len(front))

\* getCrossExchangeArbitrageOpportunities (lines 218..316): the message as the list of
\* its opportunity lines, in order; no line is the empty string ''
getCrossExchangeArbitrageOpportunities(c, feePercent) ==
    SortByNetProfit(Opportunities(c, feePercent))

\* mutant of Skipped: the filter is not applied
Skipped_Never(rateData, cfg) == FALSE

\* lines 153..155: the entry is skipped
Skipped(rateData, cfg) ==
    cfg.filter_negative_daily_net_rate /\ rateData.dailyNetRatePercent < 0

\* lines 158..162: if (apr >= minPositiveApr) ... else if (apr <= minNegativeApr) ...
ListedPositive(rateData, cfg) == rateData.apr >= cfg.min_positive_apr

ListedNegative(rateData, cfg) ==
    /\ ~(rateData.apr >= cfg.min_positive_apr)
    /\ rateData.apr <= cfg.min_negative_apr

\* mutant of SortByApr: no sort
SortByApr_Unsorted(list, descending) == list

\* lines 168..169: sort((a, b) => b[2] - a[2]) and sort((a, b) => a[2] - b[2]), stable
RECURSIVE SortByApr(_, _)
SortByApr(list, descending) ==
    IF list = <<>> THEN <<>>
    ELSE LET x == list[Len(list)]
             front == SortByApr(SubSeq(list, 1, Len(list) - 1), descending)
             k == Cardinality({i \in 1..Len(front) :
                                  IF descending THEN front[i].apr >= x.apr
                                  ELSE front[i].apr <= x.apr})
         IN  SubSeq(front, 1, k) \o <<x>> \o SubSeq(front, k + 1, Len(front))

\* lines 150..165: positivePairs and negativePairs as they are pushed
ClassifiedPairs(c, cfg) ==
    LET keys == SnapshotList(c)
        rows == [k \in 1..Len(keys) |->
                    LET rateData == c.fundingRates[keys[k].exchange][keys[k].symbol]
                    IN  [exchange |-> keys[k].exchange, symbol |-> keys[k].symbol,
                         apr |-> rateData.apr,
                         singleCycleNetRatePercent |-> rateData.singleCycleNetRatePercent,
                         dailyNetRatePercent |-> rateData.dailyNetRatePercent,
                         intervalHours |-> rateData.intervalHours,
                         frequencyPerDay |-> rateData.frequencyPerDay]]
        kept == SelectSeq(rows, LAMBDA r : ~Skipped(r, cfg))
    IN  [positive |-> SelectSeq(kept, LAMBDA r : ListedPositive(r, cfg)),
         negative |-> SelectSeq(kept, LAMBDA r : ListedNegative(r, cfg))]

\* getArbitragePairs (lines 144..209): the message as its two lists of lines, in order.
\* cfg holds the thresholds and the filter switch the constructor reads from CONFIG.
getArbitragePairs(c, cfg) ==
    LET pushed == ClassifiedPairs(c, cfg)
    IN  [positive |-> SortByApr(pushed.positive, TRUE),
         negative |-> SortByApr(pushed.negative, FALSE)]

\* mutant of CrossExchangeMessageSent: the message is sent whatever it is
CrossExchangeMessageSent_Always(c) == TRUE

\* index.ts lines 60..63: the deferred task sends the message if it is not empty
CrossExchangeMessageSent(c) ==
    getCrossExchangeArbitrageOpportunities(c, TRANSACTION_FEE_PERCENT) # <<>>

-----------------------------------------------------------------------------
(* utils.ts: fetchFundingRates *)

\* the funding rates the exchanges report
ReportedRates == {1000}

\* s.indexOf(pat), counted from 1; 0 when pat does not occur
IndexOf(s, pat) ==
    LET hits == {i \in 1..(Len(s) - Len(pat) + 1) : SubSeq(s, i, i + Len(pat) - 1) = pat}
    IN  IF hits = {} THEN 0 ELSE CHOOSE i \in hits : \A j \in hits : i <= j

\* s.replace(pat, rep) with a string pattern: the first occurrence only
ReplaceFirst(s, pat, rep) ==
    LET i == IndexOf(s, pat)
    IN  IF i = 0 THEN s
        ELSE SubSeq(s, 1, i - 1) \o rep \o SubSeq(s, i + Len(pat), Len(s))

\* adjustedPairs of lines 415..422
AdjustedPairs(exchangeName, ps) ==
    IF exchangeName = "okx"
    THEN [i \in 1..Len(ps) |-> ReplaceFirst(ps[i], USDT, <<"-">> \o USDT \o <<"-", "S", "W", "A", "P">>)]
    ELSE IF exchangeName = "gate"
    THEN [i \in 1..Len(ps) |-> ReplaceFirst(ps[i], USDT, <<"_">> \o USDT)]
    ELSE ps

Includes(ps, symbol) == \E i \in 1..Len(ps) : ps[i] = symbol

\* what fetchTopLiquidityPairs can return
TopPairsOptions == {<<>>, <<<<"B">> \o USDT>>}

\* the contracts an exchange can name in a response, in its own format: B, which is
\* asked for, and E, which is not
ReportedSymbols(exchangeName) ==
    {AdjustedPairs(exchangeName, <<b \o USDT>>)[1] : b \in Bases}

\* the next settlement time an exchange states next to a rate (nextFundingTime and the
\* like).  No line of utils.ts reads it: every updateRate call there has three
\* arguments, so the fourth parameter is undefined.
ReportedNextFundingTime == T8

\* one element of a REST array: null, or an object with a symbol and a rate field that
\* may be null
RestItems(exchangeName) ==
    {[isNull |-> TRUE, symbol |-> <<>>, hasRate |-> FALSE, rate |-> 0]}
    \cup {[isNull |-> FALSE, symbol |-> s, hasRate |-> FALSE, rate |-> 0] :
             s \in ReportedSymbols(exchangeName)}
    \cup {[isNull |-> FALSE, symbol |-> s, hasRate |-> TRUE, rate |-> r] :
             s \in ReportedSymbols(exchangeName), r \in ReportedRates}

\* the longest REST array, and the longest list of tuples in one WebSocket frame
MaxItems == 2

SeqsUpTo(S, n) == UNION {[1..k -> S] : k \in 0..n}

\* the for loops of lines 452..491 over the elements of the response: an element that
\* is null throws at item.symbol, after the elements before it were recorded
RECURSIVE RestLoop(_, _, _, _, _)
RestLoop(st, exchangeName, adjustedPairs, items, now) ==
    IF items = <<>> \/ st.threw THEN st
    ELSE LET item == Head(items)
         IN  IF item.isNull THEN [st EXCEPT !.threw = TRUE]
             ELSE IF Includes(adjustedPairs, item.symbol) /\ item.hasRate
             THEN RestLoop([collector |-> updateRate(st.collector, exchangeName, item.symbol,
                                                     item.rate, Undefined, now),
                            ratesFetched |-> TRUE, threw |-> FALSE],
                           exchangeName, adjustedPairs, Tail(items), now)
             ELSE RestLoop(st, exchangeName, adjustedPairs, Tail(items), now)

\* mutant of SkipsWebSocket: the continue of line 502 is missing
SkipsWebSocket_Never(fetched, threw) == FALSE

\* lines 500..510: the exchange is done after its REST attempt when the attempt ran to
\* its end with ratesFetched set; a throw lands in the catch, past the continue
SkipsWebSocket(fetched, threw) == fetched /\ ~threw

\* mutant of WsConfigured: the fallback is never taken
WsConfigured_Never(cfg, exchangeName) == FALSE

\* line 515: if (config.ws_url)
WsConfigured(cfg, exchangeName) == exchangeName \in cfg.ws_url

\* sendTelegramMessage(message, retries = 3)
RETRIES == 3

\* the delay of the deferred task, in seconds (line 70: 2000 ms)
DEFER_DELAY == 2

NoTimer == -1

\* what fetchFundingRates has done for an exchange when the call starts
NoAttempt == [tried |-> FALSE, ratesFetched |-> FALSE, restError |-> FALSE, ws |-> "none"]

\* mutant of FinishExchange: the loop ends with the exchange that is done
FinishExchange_Return(i) ==
    /\ pc' = "send"
    /\ idx' = i
    /\ pairIdx' = 1
    /\ retries' = RETRIES

\* the for loop of line 412 moves on: the REST request of the next exchange is sent, or
\* fetchFundingRates returns, main builds the single-leg report (line 51) and
\* sendTelegramMessage posts it (line 53)
FinishExchange(i) ==
    IF i < Len(EXCHANGES)
    THEN /\ pc' = "rest"
         /\ idx' = i + 1
         /\ pairIdx' = 1
         /\ retries' = retries
    ELSE /\ pc' = "send"
         /\ idx' = i
         /\ pairIdx' = 1
         /\ retries' = RETRIES

\* lines 512..524: the WebSocket fallback of the exchange at i, att being what the REST
\* attempt did.  new WebSocket(url) can throw, which the catch of line 521 takes.
StartWebSocket(i, att) ==
    LET e == EXCHANGES[i]
    IN  IF WsConfigured(config, e)
        THEN \/ /\ attempt' = [att EXCEPT ![e].ws = "opened"]
                /\ pc' = "ws"
                /\ UNCHANGED <<idx, pairIdx, retries>>
             \/ /\ attempt' = [att EXCEPT ![e].ws = "threw"]
                /\ FinishExchange(i)
        ELSE /\ attempt' = [att EXCEPT ![e].ws = "unconfigured"]
             /\ FinishExchange(i)

\* what is left alone by every step of fetchFundingRates
FetchFrame == UNCHANGED <<calc, call, config, pairs, cycle, sleep, deferred, crossRead, saveCalls>>

\* the REST attempt of an exchange other than okx (lines 446..510): the request fails,
\* or the body is not the array expected, or it is an array
RestResponse ==
    /\ pc = "rest"
    /\ EXCHANGES[idx] # "okx"
    /\ LET e == EXCHANGES[idx]
           tried == [attempt EXCEPT ![e].tried = TRUE]
       IN  \/ /\ StartWebSocket(idx, [tried EXCEPT ![e].restError = TRUE])
              /\ UNCHANGED <<collector, closing>>
           \/ /\ StartWebSocket(idx, tried)
              /\ UNCHANGED <<collector, closing>>
           \/ \E items \in SeqsUpTo(RestItems(e), MaxItems) :
                LET st == RestLoop([collector |-> collector, ratesFetched |-> FALSE, threw |-> FALSE],
                                   e, AdjustedPairs(e, pairs), items, cycle)
                    att == [tried EXCEPT ![e].ratesFetched = st.ratesFetched,
                                         ![e].restError = st.threw]
                IN  /\ collector' = st.collector
                    /\ UNCHANGED closing
                    /\ IF SkipsWebSocket(st.ratesFetched, st.threw)
                       THEN attempt' = att /\ FinishExchange(idx)
                       ELSE StartWebSocket(idx, att)
    /\ FetchFrame

\* the REST attempt of okx (lines 430..443), one request per pair: the request throws
\* (caught per pair), or the body has no item or no rate, or it has an item, which is
\* recorded under the instId it names
OkxRestResponse ==
    /\ pc = "rest"
    /\ EXCHANGES[idx] = "okx"
    /\ LET e == EXCHANGES[idx]
           adjustedPairs == AdjustedPairs(e, pairs)
       IN  \E recorded \in BOOLEAN, instId \in ReportedSymbols(e), rate \in ReportedRates :
             LET c == IF recorded THEN updateRate(collector, e, instId, rate, Undefined, cycle)
                      ELSE collector
                 att == [attempt EXCEPT ![e].tried = TRUE,
                                        ![e].ratesFetched = @ \/ recorded]
             IN  /\ collector' = c
                 /\ UNCHANGED closing
                 /\ IF pairIdx < Len(adjustedPairs)
                    THEN /\ pairIdx' = pairIdx + 1
                         /\ attempt' = att
                         /\ UNCHANGED <<pc, idx, retries>>
                    ELSE IF SkipsWebSocket(att[e].ratesFetched, FALSE)
                    THEN attempt' = att /\ FinishExchange(idx)
                    ELSE StartWebSocket(idx, att)
    /\ FetchFrame

-----------------------------------------------------------------------------
(* utils.ts: fetchFundingRatesViaWebSocket *)

\* the [symbol, rate] pairs parseFundingRate can return for an exchange
Tuples(exchangeName) ==
    {[symbol |-> s, rate |-> r] : s \in ReportedSymbols(exchangeName), r \in ReportedRates}

\* an inbound frame: one JSON.parse throws on, or one parseFundingRate turns into a
\* list of tuples (empty for a frame with no rate; more than one for gate only)
WsFrames(exchangeName) ==
    {[parses |-> FALSE, tuples |-> <<>>]}
    \cup {[parses |-> TRUE, tuples |-> t] :
             t \in SeqsUpTo(Tuples(exchangeName), IF exchangeName = "gate" THEN MaxItems ELSE 1)}

\* mutant of OnMessage: the tuples of a frame are taken from the last to the first
RECURSIVE OnMessage_Reverse(_, _, _, _, _)
OnMessage_Reverse(c, exchangeName, sessionPairs, tuples, now) ==
    IF tuples = <<>> THEN c
    ELSE LET t == Head(tuples)
             rest == OnMessage_Reverse(c, exchangeName, sessionPairs, Tail(tuples), now)
         IN  IF Includes(sessionPairs, t.symbol)
             THEN updateRate(rest, exchangeName, t.symbol, t.rate, Undefined, now)
             ELSE rest

\* the message handler (lines 576..594): the tuples of the frame, in order, each
\* recorded when its symbol is one of the session's pairs
RECURSIVE OnMessage(_, _, _, _, _)
OnMessage(c, exchangeName, sessionPairs, tuples, now) ==
    IF tuples = <<>> THEN c
    ELSE LET t == Head(tuples)
         IN  OnMessage(IF Includes(sessionPairs, t.symbol)
                       THEN updateRate(c, exchangeName, t.symbol, t.rate, Undefined, now)
                       ELSE c,
                       exchangeName, sessionPairs, Tail(tuples), now)

\* a frame arrives on the session fetchFundingRates is waiting for
WsMessage ==
    /\ pc = "ws"
    /\ \E frame \in WsFrames(EXCHANGES[idx]) :
          collector' = OnMessage(collector, EXCHANGES[idx], AdjustedPairs(EXCHANGES[idx], pairs),
                                 frame.tuples, cycle)
    /\ UNCHANGED <<calc, call, mainVars>>

\* the timeout fires (lines 550..554): ws.close() starts the closing handshake and the
\* promise resolves
WsTimeout ==
    /\ pc = "ws"
    /\ closing' = closing \cup {[exchange |-> EXCHANGES[idx],
                                 pairs |-> AdjustedPairs(EXCHANGES[idx], pairs)]}
    /\ attempt' = attempt
    /\ FinishExchange(idx)
    /\ UNCHANGED collector
    /\ FetchFrame

\* the connection closes before the timeout (lines 603..608): the promise resolves
WsClose ==
    /\ pc = "ws"
    /\ attempt' = attempt
    /\ FinishExchange(idx)
    /\ UNCHANGED <<collector, closing>>
    /\ FetchFrame

\* a frame arrives on a socket that is closing: its message handler is still attached
LateMessage ==
    /\ \E z \in closing : \E frame \in WsFrames(z.exchange) :
          collector' = OnMessage(collector, z.exchange, z.pairs, frame.tuples, cycle)
    /\ UNCHANGED <<calc, call, mainVars>>

\* a closing socket is closed: resolve() a second time does nothing
LateClose ==
    /\ \E z \in closing : closing' = closing \ {z}
    /\ UNCHANGED <<collector, calc, call, config, pc, pairs, idx, pairIdx, attempt, cycle,
                   retries, sleep, deferred, crossRead, saveCalls>>

-----------------------------------------------------------------------------
(* index.ts: main *)

\* the iterations of the while loop that find pairs, in the runs the model covers
MaxCycles == 2

\* what fetchTopLiquidityPairs returns is empty (lines 39..43), or it throws (lines
\* 76..81): main sleeps PUSH_INTERVAL seconds
TopPairsEmpty ==
    /\ pc = "top"
    /\ pc' = "sleep"
    /\ pairs' = <<>>
    /\ sleep' = config.push_interval
    /\ UNCHANGED <<collector, calc, call, config, idx, pairIdx, attempt, closing, cycle,
                   retries, deferred, crossRead, saveCalls>>

\* mutant of TopPairsThrows: the error ends main
TopPairsThrows_Aborts ==
    /\ pc = "top"
    /\ pc' = "aborted"
    /\ UNCHANGED <<collector, calc, call, config, pairs, idx, pairIdx, attempt, closing, cycle,
                   retries, sleep, deferred, crossRead, saveCalls>>

TopPairsThrows ==
    /\ pc = "top"
    /\ pc' = "sleep"
    /\ pairs' = <<>>
    /\ sleep' = config.push_interval
    /\ UNCHANGED <<collector, calc, call, config, idx, pairIdx, attempt, closing, cycle,
                   retries, deferred, crossRead, saveCalls>>

\* lines 46..47: clear(), then fetchFundingRates runs up to its first request
TopPairsFound ==
    /\ pc = "top"
    /\ cycle < MaxCycles
    /\ \E ps \in TopPairsOptions \ {<<>>} : pairs' = ps
    /\ cycle' = cycle + 1
    /\ collector' = clear(collector)
    /\ attempt' = [e \in ExchangeNames |-> NoAttempt]
    /\ pc' = "rest"
    /\ idx' = 1
    /\ pairIdx' = 1
    /\ UNCHANGED <<calc, call, config, closing, retries, sleep, deferred, crossRead, saveCalls>>

\* lines 57..74, once sendTelegramMessage has returned: the cross-exchange task is set
\* to run in 2 seconds, then main sleeps PUSH_INTERVAL seconds
AfterSend ==
    /\ deferred' = Append(deferred, [cycle |-> cycle, left |-> DEFER_DELAY])
    /\ sleep' = config.push_interval
    /\ pc' = "sleep"
    /\ retries' = RETRIES
    /\ UNCHANGED <<collector, calc, call, config, pairs, idx, pairIdx, attempt, closing, cycle,
                   crossRead, saveCalls>>

\* sendTelegramMessage (lines 762..807): the post succeeds; it fails with retries left;
\* it fails with none left
SendDelivered ==
    /\ pc = "send"
    /\ AfterSend

\* mutant of SendFailed: the deferred task is set before the delivery has finished
SendFailed_SetsTask ==
    /\ pc = "send"
    /\ retries > 0
    /\ retries' = retries - 1
    /\ deferred' = Append(deferred, [cycle |-> cycle, left |-> DEFER_DELAY])
    /\ UNCHANGED <<collector, calc, call, config, pc, pairs, idx, pairIdx, attempt, closing,
                   cycle, sleep, crossRead, saveCalls>>

\* mutant of SendFailed: the last retry starts the count again
SendFailed_CountsAgain ==
    /\ pc = "send"
    /\ retries > 0
    /\ retries' = IF retries = 1 THEN RETRIES ELSE retries - 1
    /\ UNCHANGED <<collector, calc, call, config, pc, pairs, idx, pairIdx, attempt, closing,
                   cycle, sleep, deferred, crossRead, saveCalls>>

SendFailed ==
    /\ pc = "send"
    /\ retries > 0
    /\ retries' = retries - 1
    /\ UNCHANGED <<collector, calc, call, config, pc, pairs, idx, pairIdx, attempt, closing,
                   cycle, sleep, deferred, crossRead, saveCalls>>

SendExhausted ==
    /\ pc = "send"
    /\ retries = 0
    /\ AfterSend

\* a timer is due
Due == sleep = 0 \/ \E i \in 1..Len(deferred) : deferred[i].left = 0

\* a second passes; a timer that is due runs first
Tick ==
    /\ ~Due
    /\ sleep > 0 \/ deferred # <<>>
    /\ sleep' = IF sleep > 0 THEN sleep - 1 ELSE sleep
    /\ deferred' = [i \in 1..Len(deferred) |-> [deferred[i] EXCEPT !.left = @ - 1]]
    /\ UNCHANGED <<collector, calc, call, config, pc, pairs, idx, pairIdx, attempt, closing,
                   cycle, retries, crossRead, saveCalls>>

\* the deferred task runs (lines 57..70): getCrossExchangeArbitrageOpportunities reads
\* the snapshot as it is now
DeferredRuns ==
    /\ deferred # <<>>
    /\ Head(deferred).left = 0
    /\ crossRead' = [scheduled |-> Head(deferred).cycle, read |-> cycle,
                     sent |-> CrossExchangeMessageSent(collector)]
    /\ deferred' = Tail(deferred)
    /\ UNCHANGED <<collector, calc, call, config, pc, pairs, idx, pairIdx, attempt, closing,
                   cycle, retries, sleep, saveCalls>>

\* the sleep of main ends; a deferred task due at the same time was set earlier and
\* runs before it
Wake ==
    /\ pc = "sleep"
    /\ sleep = 0
    /\ \A i \in 1..Len(deferred) : deferred[i].left > 0
    /\ pc' = "top"
    /\ sleep' = NoTimer
    /\ UNCHANGED <<collector, calc, call, config, pairs, idx, pairIdx, attempt, closing, cycle,
                   retries, deferred, crossRead, saveCalls>>

-----------------------------------------------------------------------------
(* The program *)

\* the timestamp cache file the constructor loads: none, or one entry
CacheFiles == {EmptyObject, "binance" :> ((<<"B">> \o USDT) :> T0)}

\* push_interval of config.json, in seconds
PushIntervals == {1, 3}

\* exchanges_config.json: every exchange has a ws_url, or okx has none
Configs == {[push_interval |-> p, ws_url |-> w] :
               p \in PushIntervals, w \in {ExchangeNames, ExchangeNames \ {"okx"}}}

NoCalc == [fundingRate |-> 0, feePercent |-> 0, exchange |-> "", current |-> Null,
           previous |-> Null,
           done |-> FALSE, result |-> [apr |-> 0, singleCycleNetRatePercent |-> 0,
                                       dailyNetRatePercent |-> 0, frequencyPerDay |-> Null,
                                       intervalHours |-> Null]]

NoCall == [op |-> "none", exchange |-> "", symbol |-> <<>>, rate |-> 0, next |-> Undefined,
           n |-> 0]

MainInit ==
    /\ pc = "top"
    /\ pairs = <<>>
    /\ idx = 1
    /\ pairIdx = 1
    /\ attempt = [e \in ExchangeNames |-> NoAttempt]
    /\ closing = {}
    /\ cycle = 0
    /\ retries = RETRIES
    /\ sleep = NoTimer
    /\ deferred = <<>>
    /\ crossRead = [scheduled |-> 0, read |-> 0, sent |-> FALSE]
    /\ saveCalls = 0

Init ==
    /\ \E cacheFile \in CacheFiles : collector = Constructor(cacheFile)
    /\ config \in Configs
    /\ calc = NoCalc
    /\ call = NoCall
    /\ MainInit

Next ==
    \/ TopPairsEmpty
    \/ TopPairsThrows
    \/ TopPairsFound
    \/ RestResponse
    \/ OkxRestResponse
    \/ WsMessage
    \/ WsTimeout
    \/ WsClose
    \/ LateMessage
    \/ LateClose
    \/ SendDelivered
    \/ SendFailed
    \/ SendExhausted
    \/ Tick
    \/ DeferredRuns
    \/ Wake

Spec == Init /\ [][Next]_vars

\* main on its own: one configuration (okx without a WebSocket url), an empty cache file
LoopInit ==
    /\ collector = Constructor(EmptyObject)
    /\ config = [push_interval |-> 3, ws_url |-> ExchangeNames \ {"okx"}]
    /\ calc = NoCalc
    /\ call = NoCall
    /\ MainInit

\* What the platform guarantees of the steps main waits for: time passes and a timer
\* that is due runs its callback; a REST request is answered or fails within its
\* axios timeout (5 s); the timeout of a WebSocket session fires unless the close came
\* first (lines 550..554); a post to Telegram is answered or fails within its axios
\* timeout (10 s) and a retry is made after its wait.
LiveSpec ==
    /\ LoopInit /\ [][Next]_vars
    /\ WF_vars(Tick)
    /\ WF_vars(Wake)
    /\ WF_vars(DeferredRuns)
    /\ WF_vars(RestResponse)
    /\ WF_vars(OkxRestResponse)
    /\ WF_vars(WsTimeout)
    /\ WF_vars(SendDelivered \/ SendFailed \/ SendExhausted)

-----------------------------------------------------------------------------
(* calculateRates on its own: the arguments are drawn, then the function is applied *)

\* current - previous, in milliseconds: below, at and above both limits, the ties of
\* both roundings, and a current that is not after previous
Deltas ==
    {0 - MS_PER_HOUR, 0, MS_PER_HOUR \div 2, MS_PER_HOUR - 1, MS_PER_HOUR, MS_PER_HOUR + 1,
     4500000, 4 * MS_PER_HOUR, 8 * MS_PER_HOUR, 34560000, 16 * MS_PER_HOUR, 20 * MS_PER_HOUR,
     24 * MS_PER_HOUR, 24 * MS_PER_HOUR + 1, 48 * MS_PER_HOUR}

CalcRates == {-500, 0, 1000}

CalcExchanges == KnownExchanges \cup {"kraken"}

\* feePercent: none, 0.06 %, 0.3 %
CalcFees == {0, 600, 3000}

CalcInputs ==
    {[fundingRate |-> r, feePercent |-> f, exchange |-> e, current |-> c, previous |-> p,
      done |-> FALSE, result |-> NoCalc.result] :
        r \in CalcRates, f \in CalcFees, e \in CalcExchanges,
        c \in {Null, Undefined} \cup {T0 + d : d \in Deltas}, p \in {Null, Undefined, T0}}

CalcInit ==
    /\ calc \in CalcInputs
    /\ collector = Constructor(EmptyObject)
    /\ config = [push_interval |-> 3, ws_url |-> ExchangeNames]
    /\ call = NoCall
    /\ MainInit

Calculate ==
    /\ ~calc.done
    /\ calc' = [calc EXCEPT !.done = TRUE,
                            !.result = calculateRates(calc.fundingRate, calc.feePercent,
                                                      calc.exchange, calc.current, calc.previous)]
    /\ UNCHANGED <<collector, call, mainVars>>

CalcNext == Calculate

CalcSpec == CalcInit /\ [][CalcNext]_vars

-----------------------------------------------------------------------------
(* The collector on its own: any caller, any order of its operations *)

\* the calls of one run
MaxCalls == 3

CallSymbols == {<<"B">> \o USDT, <<"E">> \o USDT}

CallTimestamps == {T0, T8, Null, Undefined}

CollectorInit ==
    /\ \E cacheFile \in CacheFiles : collector = Constructor(cacheFile)
    /\ call = NoCall
    /\ calc = NoCalc
    /\ config = [push_interval |-> 3, ws_url |-> ExchangeNames]
    /\ MainInit

CallUpdateRate ==
    /\ call.n < MaxCalls
    /\ \E e \in ExchangeNames, s \in CallSymbols, r \in ReportedRates, t \in CallTimestamps :
          /\ collector' = updateRate(collector, e, s, r, t, call.n + 1)
          /\ call' = [op |-> "updateRate", exchange |-> e, symbol |-> s, rate |-> r, next |-> t,
                      n |-> call.n + 1]
    /\ UNCHANGED <<calc, mainVars>>

CallClear ==
    /\ call.n < MaxCalls
    /\ collector' = clear(collector)
    /\ call' = [NoCall EXCEPT !.op = "clear", !.n = call.n + 1]
    /\ UNCHANGED <<calc, mainVars>>

CollectorNext ==
    \/ CallUpdateRate
    \/ CallClear

CollectorSpec == CollectorInit /\ [][CollectorNext]_vars

-----------------------------------------------------------------------------
(* The report builders on their own: a snapshot is built by updateRate calls, and a
   report is taken of it after any of them.  The builders change nothing, so a report
   taken after another report reads the same snapshot and is left out. *)

\* the last call was not a report
SnapshotFresh == call.op \in {"none", "updateRate"}

ReportSymbols ==
    {<<"B">> \o USDT, <<"B", "-">> \o USDT \o <<"-", "S", "W", "A", "P">>, <<"E", "_">> \o USDT}

\* rates -0.0005, 0.001 and 0.008
ReportRates == {-500, 1000, 8000}

\* feePercent 0.06, 0.075 and 0.3
ReportFees == {600, 750, 3000}

\* thresholds in percent: 50 and -50; 50 and 150, whose ranges overlap; -60 and -60,
\* which every apr of the model is above; 900 and 880, which every apr is below
ReportThresholds ==
    {[min_positive_apr |-> 500000, min_negative_apr |-> 0 - 500000],
     [min_positive_apr |-> 500000, min_negative_apr |-> 1500000],
     [min_positive_apr |-> 0 - 600000, min_negative_apr |-> 0 - 600000],
     [min_positive_apr |-> 9000000, min_negative_apr |-> 8800000]}

ReportConfigs ==
    {[push_interval |-> 3, ws_url |-> ExchangeNames,
      min_positive_apr |-> t.min_positive_apr, min_negative_apr |-> t.min_negative_apr,
      filter_negative_daily_net_rate |-> f] : t \in ReportThresholds, f \in BOOLEAN}

ReportInit ==
    /\ collector = Constructor(EmptyObject)
    /\ config \in ReportConfigs
    /\ call = NoCall
    /\ calc = NoCalc
    /\ MainInit

ReportUpdateRate ==
    /\ \E e \in ExchangeNames, s \in ReportSymbols, r \in ReportRates :
          collector' = updateRate(collector, e, s, r, Undefined, 1)
    /\ call' = [NoCall EXCEPT !.op = "updateRate"]
    /\ UNCHANGED <<calc, mainVars>>

CallCrossExchange ==
    /\ SnapshotFresh
    /\ \E feePercent \in ReportFees :
          call' = [op |-> "getCrossExchangeArbitrageOpportunities", feePercent |-> feePercent,
                   message |-> getCrossExchangeArbitrageOpportunities(collector, feePercent)]
    /\ UNCHANGED <<collector, calc, mainVars>>

\* the deferred task of main (index.ts lines 57..70)
DeferredTask ==
    /\ SnapshotFresh
    /\ call' = [op |-> "deferred", feePercent |-> TRANSACTION_FEE_PERCENT,
                message |-> getCrossExchangeArbitrageOpportunities(collector,
                                                                   TRANSACTION_FEE_PERCENT),
                sent |-> CrossExchangeMessageSent(collector)]
    /\ UNCHANGED <<collector, calc, mainVars>>

CallArbitragePairs ==
    /\ SnapshotFresh
    /\ call' = [op |-> "getArbitragePairs", message |-> getArbitragePairs(collector, config)]
    /\ UNCHANGED <<collector, calc, mainVars>>

ReportNext ==
    \/ ReportUpdateRate
    \/ CallCrossExchange
    \/ DeferredTask
    \/ CallArbitragePairs

ReportSpec == ReportInit /\ [][ReportNext]_vars

-----------------------------------------------------------------------------
(* cleanSymbol on its own: a symbol is drawn, then the function is applied to it and
   to what it returned *)

MaxParts == 3
MaxApplications == 2

\* a base asset and the three suffixes of the two patterns
SymbolParts ==
    {<<"B">>, USDT, <<"_">> \o USDT, <<"-">> \o USDT \o <<"-", "S", "W", "A", "P">>}

SymbolStrings == {Flatten(parts) : parts \in SeqsUpTo(SymbolParts, MaxParts)}

CleanInit ==
    /\ \E s \in SymbolStrings :
          call = [op |-> "symbol", symbol |-> s, argument |-> s, returned |-> s, n |-> 0]
    /\ collector = Constructor(EmptyObject)
    /\ config = [push_interval |-> 3, ws_url |-> ExchangeNames]
    /\ calc = NoCalc
    /\ MainInit

CallCleanSymbol ==
    /\ call.n < MaxApplications
    /\ call' = [op |-> "cleanSymbol", symbol |-> call.symbol, argument |-> call.returned,
                returned |-> cleanSymbol(call.returned), n |-> call.n + 1]
    /\ UNCHANGED <<collector, calc, mainVars>>

CleanNext == CallCleanSymbol

CleanSpec == CleanInit /\ [][CleanNext]_vars

-----------------------------------------------------------------------------
(* One WebSocket session on its own: fetchFundingRatesViaWebSocket is called for an
   exchange and the pairs in its format; frames arrive, the timeout fires, the
   connection closes.  The frames handled so far are kept, in arrival order, and how
   many of them had been handled when the promise was resolved. *)

MaxFrames == 2

\* gate is the exchange whose frames carry more than one tuple
SessionExchanges == {"binance", "gate"}

SessionRates == {0 - 500, 1000}

\* the rates of a session differ for the symbol asked for
SessionTuples(exchangeName, sessionPairs) ==
    Tuples(exchangeName)
        \cup {[symbol |-> sessionPairs[i], rate |-> r] : i \in 1..Len(sessionPairs), r \in SessionRates}

SessionFrames(exchangeName, sessionPairs) ==
    {[parses |-> FALSE, tuples |-> <<>>]}
    \cup {[parses |-> TRUE, tuples |-> t] :
             t \in SeqsUpTo(SessionTuples(exchangeName, sessionPairs),
                            IF exchangeName = "gate" THEN MaxItems ELSE 1)}

\* lines 544..554: the socket is created and the timeout armed; the promise is pending
SessionInit ==
    /\ \E e \in SessionExchanges :
          /\ call = [op |-> "fetchFundingRatesViaWebSocket", exchange |-> e,
                     pairs |-> AdjustedPairs(e, <<<<"B">> \o USDT>>),
                     socket |-> "open", resolved |-> "pending", frames |-> <<>>,
                     framesAtResolve |-> Null]
          /\ collector = [Constructor(EmptyObject)
                              EXCEPT !.fundingRates = [x \in SessionExchanges |-> EmptyObject]]
    /\ config = [push_interval |-> 3, ws_url |-> SessionExchanges]
    /\ calc = NoCalc
    /\ MainInit

\* mutant of SessionMessage: a frame that does not parse ends the session
SessionMessage_EndsOnBadFrame ==
    /\ call.socket # "closed"
    /\ Len(call.frames) < MaxFrames
    /\ \E frame \in SessionFrames(call.exchange, call.pairs) :
          /\ collector' = OnMessage(collector, call.exchange, call.pairs, frame.tuples,
                                    Len(call.frames) + 1)
          /\ call' = [call EXCEPT !.frames = Append(@, frame),
                                  !.socket = IF frame.parses THEN @ ELSE "closed",
                                  !.resolved = IF frame.parses \/ @ # "pending" THEN @
                                               ELSE "close",
                                  !.framesAtResolve = IF frame.parses \/ @ # Null THEN @
                                                      ELSE Len(call.frames) + 1]
    /\ UNCHANGED <<calc, mainVars>>

\* the message handler (lines 576..594) runs for a frame; the socket delivers frames
\* until it is closed
SessionMessage ==
    /\ call.socket # "closed"
    /\ Len(call.frames) < MaxFrames
    /\ \E frame \in SessionFrames(call.exchange, call.pairs) :
          /\ collector' = OnMessage(collector, call.exchange, call.pairs, frame.tuples,
                                    Len(call.frames) + 1)
          /\ call' = [call EXCEPT !.frames = Append(@, frame)]
    /\ UNCHANGED <<calc, mainVars>>

\* mutant of SessionTimeout: the timeout closes the socket and does not resolve
SessionTimeout_ClosesOnly ==
    /\ call.socket = "open"
    /\ call' = [call EXCEPT !.socket = "closing"]
    /\ UNCHANGED <<collector, calc, mainVars>>

\* mutant of SessionTimeout: the timeout empties the snapshot
SessionTimeout_Clears ==
    /\ call.socket = "open"
    /\ call' = [call EXCEPT !.socket = "closing", !.resolved = "timeout",
                            !.framesAtResolve = Len(call.frames)]
    /\ collector' = [collector EXCEPT !.fundingRates = [x \in DOMAIN @ |-> EmptyObject]]
    /\ UNCHANGED <<calc, mainVars>>

\* the timeout callback (lines 550..554): ws.close() and resolve().  The close handler
\* clears the timer, so the callback runs on an open socket only.
SessionTimeout ==
    /\ call.socket = "open"
    /\ call' = [call EXCEPT !.socket = "closing", !.resolved = "timeout",
                            !.framesAtResolve = Len(call.frames)]
    /\ UNCHANGED <<collector, calc, mainVars>>

\* the close handler (lines 603..608): clearTimeout and resolve(), which does nothing
\* on a promise the timeout has resolved
SessionClose ==
    /\ call.socket # "closed"
    /\ call' = [call EXCEPT !.socket = "closed",
                            !.resolved = IF @ = "pending" THEN "close" ELSE @,
                            !.framesAtResolve = IF @ = Null THEN Len(call.frames) ELSE @]
    /\ UNCHANGED <<collector, calc, mainVars>>

SessionNext ==
    \/ SessionMessage
    \/ SessionTimeout
    \/ SessionClose

SessionSpec == SessionInit /\ [][SessionNext]_vars

\* setTimeout runs its callback once the delay has passed, unless the timer was cleared
TimedSessionSpec == SessionSpec /\ WF_vars(SessionTimeout)

-----------------------------------------------------------------------------
(* From a pair of symbol discovery to its group: the pair is put in an exchange's
   format as fetchFundingRates does, and the symbol in that format is normalized as
   getCrossExchangeArbitrageOpportunities does *)

MaxBaseParts == 2

\* what a base asset is made of; fetchTopLiquidityPairs keeps every symbol that ends
\* with the suffix, whatever stands before it
BaseParts == {<<"B">>, <<"E">>, <<"_">>, USDT}

BaseStrings == {Flatten(parts) : parts \in SeqsUpTo(BaseParts, MaxBaseParts)}

GroupInit ==
    /\ \E b \in BaseStrings, e \in KnownExchanges :
          call = [op |-> "pair", base |-> b, exchange |-> e, symbol |-> b \o USDT,
                  cleaned |-> <<>>]
    /\ collector = Constructor(EmptyObject)
    /\ config = [push_interval |-> 3, ws_url |-> ExchangeNames]
    /\ calc = NoCalc
    /\ MainInit

FormatAndClean ==
    /\ call.op = "pair"
    /\ LET symbol == AdjustedPairs(call.exchange, <<call.base \o USDT>>)[1]
       IN  call' = [call EXCEPT !.op = "cleanSymbol", !.symbol = symbol,
                                !.cleaned = cleanSymbol(symbol)]
    /\ UNCHANGED <<collector, calc, mainVars>>

GroupNext == FormatAndClean

GroupSpec == GroupInit /\ [][GroupNext]_vars

-----------------------------------------------------------------------------
(* Properties of fetchFundingRates and main, under Spec *)

\* fetchFundingRates is past the exchange at position i of EXCHANGES
Finished(i) ==
    /\ cycle >= 1
    /\ attempt[EXCHANGES[i]].tried
    /\ pc \in {"rest", "ws"} => idx > i

\* C1 as stated: an exchange whose REST attempt recorded a tuple gets no WebSocket
\* session in that call.
C1_RestTupleNoSession ==
    \A e \in ExchangeNames : attempt[e].ratesFetched => attempt[e].ws # "opened"

\* C1: an exchange whose REST attempt recorded a tuple and ran to its end without
\* throwing gets no WebSocket attempt in that call.
C1_CompletedRestNoSession ==
    \A e \in ExchangeNames :
        attempt[e].ratesFetched /\ ~attempt[e].restError => attempt[e].ws = "none"

C1_Witness ==
    /\ pc = "send"
    /\ attempt["binance"].ratesFetched
    /\ ~attempt["binance"].restError
    /\ attempt["binance"].ws = "none"
    /\ DOMAIN collector.fundingRates["binance"] # {}

\* C2 as stated: an exchange whose REST attempt threw or recorded nothing always gets
\* a WebSocket attempt in the same call.
C2_FallbackAlways ==
    \A i \in 1..Len(EXCHANGES) :
        LET a == attempt[EXCHANGES[i]]
        IN  Finished(i) /\ (a.restError \/ ~a.ratesFetched) => a.ws \in {"opened", "threw"}

\* C2: an exchange whose REST attempt threw or recorded nothing gets a WebSocket
\* attempt in the same call when it has a ws_url, and none when it has not; either way
\* the call goes on.
C2_FallbackWhenConfigured ==
    \A i \in 1..Len(EXCHANGES) :
        LET e == EXCHANGES[i]
            a == attempt[e]
        IN  Finished(i) /\ (a.restError \/ ~a.ratesFetched)
                => IF e \in config.ws_url THEN a.ws \in {"opened", "threw"}
                                          ELSE a.ws = "unconfigured"

C2_Witness ==
    /\ pc = "send"
    /\ attempt["binance"].restError
    /\ attempt["binance"].ws = "opened"
    /\ ~attempt["okx"].ratesFetched
    /\ attempt["okx"].ws = "unconfigured"

\* C3: every step of fetchFundingRates stays in fetchFundingRates or returns to main;
\* when it returns every configured exchange has had its attempt; and a step taken for
\* one exchange leaves the snapshot entries of each other exchange as they are, unless
\* a socket of that other exchange is still closing.
C3_EveryExchangeAttempted ==
    [][/\ pc \in {"rest", "ws"} => pc' \in {"rest", "ws", "send"}
       /\ pc' = "send" /\ pc # "send" => \A e \in ExchangeNames : attempt'[e].tried
       /\ pc \in {"rest", "ws"} =>
             \A x \in ExchangeNames :
                 x # EXCHANGES[idx] /\ (\A z \in closing : z.exchange # x)
                     => collector'.fundingRates[x] = collector.fundingRates[x]]_vars

C3_Witness ==
    /\ pc = "send"
    /\ attempt["binance"].restError
    /\ attempt["binance"].ws = "opened"
    /\ DOMAIN collector.fundingRates["binance"] = {}
    /\ attempt["okx"].ratesFetched
    /\ DOMAIN collector.fundingRates["okx"] # {}

\* C4 as stated: the deferred task set in a cycle reads the snapshot of that cycle.
C4_DeferredReadsOwnCycle == crossRead.scheduled = crossRead.read

\* C5: fetchFundingRates starts on a snapshot clear() has just emptied, and when
\* getArbitragePairs runs every entry of the snapshot was written in the running cycle.
C5_SnapshotOfThisCycle ==
    [][/\ pc = "top" /\ pc' = "rest" =>
             \A e \in ExchangeNames : DOMAIN collector'.fundingRates[e] = {}
       /\ pc' = "send" =>
             \A e \in ExchangeNames : \A s \in DOMAIN collector'.fundingRates[e] :
                 collector'.fundingRates[e][s].timestamp = cycle']_vars

C5_Witness ==
    /\ pc = "send"
    /\ cycle = 2
    /\ DOMAIN collector.fundingRates["binance"] # {}
    /\ DOMAIN collector.fundingRates["okx"] # {}

\* C6 as stated: when an iteration ends with a ledger that changed, the ledger has
\* been saved.
C6_ChangedLedgerSaved ==
    [][pc = "sleep" /\ pc' = "top" /\ collector.timestampsChanged => saveCalls >= 1]_vars

-----------------------------------------------------------------------------
(* Properties of the collector, under CollectorSpec *)

\* C7: after updateRate(exchange, symbol, rate, t) the ledger entry of (exchange,
\* symbol) is t; the flag is true if the entry was not t before and is as it was if the
\* entry was t; every other ledger entry is as it was.
C7_UpdateRateLedger ==
    [][call'.op = "updateRate" /\ call'.n # call.n =>
          LET e == call'.exchange
              s == call'.symbol
              t == call'.next
              before == LedgerEntry(collector.previousTimestamps, e, s)
          IN  /\ LedgerEntry(collector'.previousTimestamps, e, s) = t
              /\ before # t => collector'.timestampsChanged
              /\ before = t => collector'.timestampsChanged = collector.timestampsChanged
              /\ \A x \in ExchangeNames, y \in CallSymbols :
                    <<x, y>> # <<e, s>> =>
                        LedgerEntry(collector'.previousTimestamps, x, y)
                            = LedgerEntry(collector.previousTimestamps, x, y)]_vars

C7_Witness ==
    /\ call.op = "updateRate"
    /\ call.next = T8
    /\ call.exchange = "binance"
    /\ call.symbol = <<"B">> \o USDT
    /\ LedgerEntry(collector.previousTimestamps, "binance", <<"B">> \o USDT) = T8
    /\ LedgerEntry(collector.previousTimestamps, "okx", <<"E">> \o USDT) = T0
    /\ collector.timestampsChanged

-----------------------------------------------------------------------------
(* Properties of calculateRates, under CalcSpec *)

\* C9: with both timestamps present, current after previous and 1h <= current -
\* previous <= 24h, frequencyPerDay is 86400000 / (current - previous) rounded to the
\* nearest integer and at least 1, and intervalHours is (current - previous) / 3600000
\* to the nearest tenth; 8h gives 3 and 8.0, 1h gives 24 and 1.0, 24h gives 1 and 24.0.
C9_InferredFrequency ==
    LET d == calc.current - calc.previous
        f == calc.result.frequencyPerDay
        h == calc.result.intervalHours
    IN  /\ calc.done
        /\ calc.current \notin {Null, Undefined}
        /\ calc.previous \notin {Null, Undefined}
        /\ calc.current > calc.previous
        /\ 3600000 <= d
        /\ d <= 86400000
        => /\ f >= 1
           /\ (2 * f - 1) * d <= 2 * 86400000
           /\ 2 * 86400000 < (2 * f + 1) * d
           /\ h # Null
           /\ 2 * Abs(h * 360000 - d) <= 360000
           /\ d = 8 * 3600000 => f = 3 /\ h = 80
           /\ d = 3600000 => f = 24 /\ h = 10
           /\ d = 86400000 => f = 1 /\ h = 240

C9_Witness ==
    /\ calc.done
    /\ calc.previous = T0
    /\ calc.current = T0 + 8 * 3600000
    /\ calc.result.frequencyPerDay = 3
    /\ calc.result.intervalHours = 80

\* C10: with a timestamp absent, or current not after previous, or current - previous
\* below 1h or above 24h, intervalHours is absent and the frequency is the default of
\* the exchange, 3 for binance, okx, bybit, bitget and gate; and intervalHours is
\* absent in no other case.
C10_DefaultFrequency ==
    LET rejected == \/ calc.current \in {Null, Undefined}
                    \/ calc.previous \in {Null, Undefined}
                    \/ calc.current <= calc.previous
                    \/ calc.current - calc.previous < 3600000
                    \/ calc.current - calc.previous > 86400000
    IN  calc.done =>
           /\ rejected <=> calc.result.intervalHours = Null
           /\ rejected /\ calc.exchange \in {"binance", "okx", "bybit", "bitget", "gate"}
                 => calc.result.frequencyPerDay = 3

C10_Witness ==
    /\ calc.done
    /\ calc.exchange = "okx"
    /\ calc.previous = T0
    /\ calc.current = T0 + 1800000
    /\ calc.result.frequencyPerDay = 3
    /\ calc.result.intervalHours = Null

\* C11 as stated: the frequencyPerDay calculateRates returns, which updateRate stores
\* as it is, is an integer of at least 1 for every exchange name.
C11_FrequencyAtLeastOne == calc.done => calc.result.frequencyPerDay >= 1

\* C12: singleCycleNetRatePercent is the rate as a percentage less the fee for a rate
\* of 0 or more, and the absolute value of that percentage less the fee for a rate
\* below 0.
C12_SingleCycleNet ==
    calc.done =>
        /\ calc.fundingRate >= 0 =>
              calc.result.singleCycleNetRatePercent = calc.fundingRate - calc.feePercent
        /\ calc.fundingRate < 0 =>
              calc.result.singleCycleNetRatePercent = (0 - calc.fundingRate) - calc.feePercent

C12_Witness ==
    /\ calc.done
    /\ calc.fundingRate = -500
    /\ calc.feePercent = 600
    /\ calc.result.singleCycleNetRatePercent = -100

C14_AprFromDailyRate ==
    LET f == calc.result.frequencyPerDay
    IN  calc.done /\ f # Null => calc.result.apr = (calc.fundingRate * f) * 365

C14_Witness ==
    /\ calc.done
    /\ calc.fundingRate = 1000
    /\ calc.result.frequencyPerDay = 24
    /\ calc.result.intervalHours = 10
    /\ calc.result.apr = 8760000

-----------------------------------------------------------------------------
(* Properties of the report builders, under ReportSpec *)

\* the entries of the snapshot
SnapshotEntries ==
    UNION {{[exchange |-> e, symbol |-> s, rate |-> collector.fundingRates[e][s].rate] :
               s \in DOMAIN collector.fundingRates[e]} : e \in ExchangeNames}

\* two entries of one normalized symbol
SameGroupPairs ==
    {p \in SnapshotEntries \X SnapshotEntries :
        p[1] # p[2] /\ cleanSymbol(p[1].symbol) = cleanSymbol(p[2].symbol)}

CrossCalled == call.op = "getCrossExchangeArbitrageOpportunities"

\* the opportunity is one for the entries a and b
OpportunityOf(opp, a, b, feePercent) ==
    /\ opp.cleanedSymbol = cleanSymbol(a.symbol)
    /\ {opp.longExchange, opp.shortExchange} = {a.exchange, b.exchange}
    /\ opp.netProfitPercent = Abs(a.rate - b.rate) - 2 * feePercent

\* C15: for two entries of one normalized symbol on two exchanges, the list has an
\* opportunity for them exactly when the absolute difference of their rates, as a
\* percentage, is above twice the fee; and every opportunity of the list is one for
\* two entries of one normalized symbol whose difference is above twice the fee.
C15_EmittedIffAboveFees ==
    CrossCalled =>
        /\ \A p \in SameGroupPairs :
              p[1].exchange # p[2].exchange =>
                  ((\E k \in 1..Len(call.message) :
                        OpportunityOf(call.message[k], p[1], p[2], call.feePercent))
                   <=> Abs(p[1].rate - p[2].rate) > 2 * call.feePercent)
        /\ \A k \in 1..Len(call.message) :
              \E p \in SameGroupPairs :
                  /\ OpportunityOf(call.message[k], p[1], p[2], call.feePercent)
                  /\ Abs(p[1].rate - p[2].rate) > 2 * call.feePercent

C15_Witness ==
    /\ CrossCalled
    /\ call.feePercent = 750
    /\ Len(call.message) >= 1
    /\ \E p \in SameGroupPairs :
          p[1].exchange # p[2].exchange /\ Abs(p[1].rate - p[2].rate) = 1500
    /\ \E p \in SameGroupPairs :
          p[1].exchange # p[2].exchange /\ Abs(p[1].rate - p[2].rate) = 7000

\* C16: every opportunity of the list has netProfitPercent above 0 and is for two
\* entries of one normalized symbol of which the one with the lower rate is on
\* longExchange and the one with the higher rate on shortExchange, netProfitPercent
\* being the difference of the rates as a percentage less twice the fee.
C16_LowerRateIsLong ==
    CrossCalled =>
        \A k \in 1..Len(call.message) :
            LET opp == call.message[k]
            IN  /\ opp.netProfitPercent > 0
                /\ \E p \in SameGroupPairs :
                      /\ p[1].rate < p[2].rate
                      /\ opp.longExchange = p[1].exchange
                      /\ opp.shortExchange = p[2].exchange
                      /\ opp.cleanedSymbol = cleanSymbol(p[1].symbol)
                      /\ opp.netProfitPercent = (p[2].rate - p[1].rate) - 2 * call.feePercent

C16_Witness ==
    /\ CrossCalled
    /\ call.feePercent = 600
    /\ SnapshotEntries = {[exchange |-> "binance", symbol |-> <<"B">> \o USDT, rate |-> 1000],
                          [exchange |-> "okx",
                           symbol |-> <<"B", "-">> \o USDT \o <<"-", "S", "W", "A", "P">>,
                           rate |-> -500]}
    /\ call.message = <<[longExchange |-> "okx", shortExchange |-> "binance",
                         cleanedSymbol |-> <<"B">>, netProfitPercent |-> 300]>>

\* C17 as stated: every opportunity of the list names two different exchanges.
C17_TwoExchanges ==
    CrossCalled =>
        \A k \in 1..Len(call.message) :
            call.message[k].longExchange # call.message[k].shortExchange

\* the number of places of a list that hold x
Count(list, x) == Cardinality({i \in 1..Len(list) : list[i] = x})

\* C18: the list returned goes down by netProfitPercent from each opportunity to the
\* next, and holds the opportunities found, each as often as it was found.
C18_SortedByNetProfit ==
    CrossCalled =>
        LET found == Opportunities(collector, call.feePercent)
        IN  /\ \A k \in 1..(Len(call.message) - 1) :
                  call.message[k].netProfitPercent >= call.message[k + 1].netProfitPercent
            /\ Len(call.message) = Len(found)
            /\ \A k \in 1..Len(found) : Count(call.message, found[k]) = Count(found, found[k])

C18_Witness ==
    /\ CrossCalled
    /\ Len(call.message) >= 3
    /\ call.message[1].netProfitPercent > call.message[2].netProfitPercent
    /\ call.message[2].netProfitPercent > call.message[3].netProfitPercent
    /\ call.message # Opportunities(collector, call.feePercent)

\* C19: when no two entries of one normalized symbol differ by more than twice the
\* fee the message is empty and the deferred task sends nothing; it sends a message
\* only when the message has an opportunity.
C19_NoOpportunityNoMessage ==
    call.op = "deferred" =>
        /\ (\A p \in SameGroupPairs : Abs(p[1].rate - p[2].rate) <= 2 * call.feePercent)
              => call.message = <<>> /\ ~call.sent
        /\ call.sent => call.message # <<>>

C19_Witness ==
    /\ call.op = "deferred"
    /\ \E p \in SameGroupPairs :
          p[1].exchange # p[2].exchange /\ Abs(p[1].rate - p[2].rate) = 1500
    /\ call.message = <<>>
    /\ ~call.sent

\* the list has a line for the entry
Listed(list, e) ==
    \E k \in 1..Len(list) : list[k].exchange = e.exchange /\ list[k].symbol = e.symbol

\* C20 as stated: an entry the filter does not skip is in the positive list exactly
\* when its apr is at least min_positive_apr, and in the negative list exactly when
\* its apr is at most min_negative_apr.
C20_IndependentThresholds ==
    call.op = "getArbitragePairs" =>
        \A e \in SnapshotEntries :
            LET rateData == collector.fundingRates[e.exchange][e.symbol]
            IN  ~(config.filter_negative_daily_net_rate /\ rateData.dailyNetRatePercent < 0) =>
                   /\ Listed(call.message.positive, e) <=> rateData.apr >= config.min_positive_apr
                   /\ Listed(call.message.negative, e) <=> rateData.apr <= config.min_negative_apr

\* C21: with the filter on, no line of either list has dailyNetRatePercent below 0 and
\* an entry of 0 or more is listed when its apr passes a threshold; with the filter
\* off an entry is listed when its apr passes a threshold whatever its
\* dailyNetRatePercent.
C21_NegativeDailyNetFilter ==
    call.op = "getArbitragePairs" =>
        /\ config.filter_negative_daily_net_rate =>
              \A k \in 1..Len(call.message.positive \o call.message.negative) :
                  (call.message.positive \o call.message.negative)[k].dailyNetRatePercent >= 0
        /\ \A e \in SnapshotEntries :
              LET rateData == collector.fundingRates[e.exchange][e.symbol]
              IN  ~config.filter_negative_daily_net_rate \/ rateData.dailyNetRatePercent >= 0 =>
                     (Listed(call.message.positive, e) \/ Listed(call.message.negative, e)
                      <=> (\/ rateData.apr >= config.min_positive_apr
                           \/ rateData.apr <= config.min_negative_apr))

C21_Witness ==
    /\ call.op = "getArbitragePairs"
    /\ config.filter_negative_daily_net_rate
    /\ config.min_negative_apr = 0 - 500000
    /\ call.message.negative = <<>>
    /\ Len(call.message.positive) >= 1
    /\ \E e \in SnapshotEntries :
          /\ collector.fundingRates[e.exchange][e.symbol].dailyNetRatePercent < 0
          /\ collector.fundingRates[e.exchange][e.symbol].apr <= config.min_negative_apr

\* C22: the positive list goes down by apr and the negative list goes up by apr from
\* each line to the next, and each list holds the entries classified for it, each
\* once.
C22_SortedByApr ==
    call.op = "getArbitragePairs" =>
        LET pushed == ClassifiedPairs(collector, config)
            positive == call.message.positive
            negative == call.message.negative
        IN  /\ \A k \in 1..(Len(positive) - 1) : positive[k].apr >= positive[k + 1].apr
            /\ \A k \in 1..(Len(negative) - 1) : negative[k].apr <= negative[k + 1].apr
            /\ Len(positive) = Len(pushed.positive)
            /\ Len(negative) = Len(pushed.negative)
            /\ \A k \in 1..Len(pushed.positive) : Count(positive, pushed.positive[k]) = 1
            /\ \A k \in 1..Len(pushed.negative) : Count(negative, pushed.negative[k]) = 1

C22_Witness ==
    /\ call.op = "getArbitragePairs"
    /\ Len(call.message.positive) = 3
    /\ call.message.positive[1].apr > call.message.positive[2].apr
    /\ call.message.positive[2].apr > call.message.positive[3].apr
    /\ call.message.positive # ClassifiedPairs(collector, config).positive

\* a run where the negative list of three lines had to be put in order
C22_NegativeWitness ==
    /\ call.op = "getArbitragePairs"
    /\ Len(call.message.negative) = 3
    /\ call.message.negative[1].apr < call.message.negative[2].apr
    /\ call.message.negative[2].apr < call.message.negative[3].apr
    /\ call.message.negative # ClassifiedPairs(collector, config).negative

-----------------------------------------------------------------------------
(* Properties of the snapshot, under CollectorSpec *)

\* C23: a clear() leaves the snapshot with the exchange keys it had and an empty symbol
\* map under each of them, whatever was in it.
C23_ClearEmptiesEveryExchange ==
    [][call'.op = "clear" /\ call'.n # call.n =>
          /\ DOMAIN collector'.fundingRates = DOMAIN collector.fundingRates
          /\ \A e \in DOMAIN collector'.fundingRates : collector'.fundingRates[e] = EmptyObject]_vars

C23_Witness ==
    /\ call.op = "clear"
    /\ call.n = 2
    /\ collector.previousTimestamps # EmptyObject
    /\ LedgerEntry(collector.previousTimestamps, "okx", <<"E">> \o USDT) = T8
    /\ DOMAIN collector.fundingRates = ExchangeNames
    /\ \A e \in ExchangeNames : collector.fundingRates[e] = EmptyObject

\* C24: the snapshot's keys are the exchanges of EXCHANGES in every state; an
\* updateRate leaves under its key the observation of that call and every other key as
\* it was, and a clear leaves no key, so a key holds the observation of the last
\* updateRate made for it since the last clear.
C24_OneObservationPerKey ==
    /\ DOMAIN collector.fundingRates = ExchangeNames
    /\ [][/\ DOMAIN collector'.fundingRates = ExchangeNames
          /\ call'.op = "updateRate" /\ call'.n # call.n =>
                /\ call'.symbol \in DOMAIN collector'.fundingRates[call'.exchange]
                /\ collector'.fundingRates[call'.exchange][call'.symbol].rate = call'.rate
                /\ collector'.fundingRates[call'.exchange][call'.symbol].nextFundingTimestamp
                       = call'.next
                /\ collector'.fundingRates[call'.exchange][call'.symbol].timestamp = call'.n
                /\ \A e \in ExchangeNames :
                      /\ DOMAIN collector'.fundingRates[e] =
                             DOMAIN collector.fundingRates[e]
                                 \cup (IF e = call'.exchange THEN {call'.symbol} ELSE {})
                      /\ \A s \in DOMAIN collector.fundingRates[e] :
                            e # call'.exchange \/ s # call'.symbol =>
                                collector'.fundingRates[e][s] = collector.fundingRates[e][s]
          /\ call'.op = "clear" /\ call'.n # call.n =>
                \A e \in ExchangeNames : DOMAIN collector'.fundingRates[e] = {}]_vars

C24_Witness ==
    /\ call.op = "updateRate"
    /\ call.n = 3
    /\ call.exchange = "binance"
    /\ call.symbol = <<"B">> \o USDT
    /\ call.next = Null
    /\ DOMAIN collector.fundingRates["binance"] = {<<"B">> \o USDT, <<"E">> \o USDT}
    /\ collector.fundingRates["binance"][<<"B">> \o USDT].timestamp = 3
    /\ collector.fundingRates["binance"][<<"B">> \o USDT].nextFundingTimestamp = Null
    /\ collector.fundingRates["binance"][<<"E">> \o USDT].timestamp = 2
    /\ LedgerEntry(collector.previousTimestamps, "binance", <<"B">> \o USDT) = Null

-----------------------------------------------------------------------------
(* Properties of cleanSymbol, under CleanSpec *)

\* C25: cleanSymbol applied to what cleanSymbol returned returns it unchanged, for
\* every symbol string.
C25_Idempotent ==
    call.op = "cleanSymbol" /\ call.n >= 2 => call.returned = call.argument

\* the symbols on which a second application changes nothing include every symbol
\* made of a base asset without suffix and at most one suffix
C25_IdempotentOnFormats ==
    (call.op = "cleanSymbol" /\ call.n >= 2
         /\ call.symbol \in {<<"B">> \o suffix : suffix \in SymbolParts \cup {<<>>}})
        => call.returned = call.argument

-----------------------------------------------------------------------------
(* Properties of a WebSocket session, under SessionSpec and TimedSessionSpec *)

\* the tuples of the frames handled so far that the handler records, in arrival order
SessionValidTuples(frames) ==
    SelectSeq(Flatten([k \in 1..Len(frames) |-> frames[k].tuples]),
              LAMBDA t : Includes(call.pairs, t.symbol))

SessionEntry(c, symbol) == c.fundingRates[call.exchange][symbol]

\* C26: the promise of a session is resolved in the end; it is resolved as soon as the
\* socket is not open any more, by the close or by the timeout, whichever comes
\* first, and the timeout closes the socket with or without data received.
C26_SessionEnds ==
    /\ <>(call.resolved # "pending")
    /\ [](call.socket # "open" => call.resolved # "pending")
    /\ [][/\ call.resolved # "pending" => call'.resolved = call.resolved
          /\ call.resolved = "pending" /\ call'.resolved = "timeout" => call'.socket = "closing"]_vars

C26_Witness ==
    /\ call.resolved = "timeout"
    /\ call.socket = "closing"
    /\ call.framesAtResolve = 1
    /\ SessionValidTuples(call.frames) # <<>>

\* C27: the step that ends a session, the timeout or the close, leaves the snapshot
\* and the ledger as they are, so what the tuples before it wrote is still there.
C27_EndKeepsEntries ==
    [][call'.frames = call.frames => collector' = collector]_vars

C27_Witness ==
    /\ call.resolved = "timeout"
    /\ call.exchange = "binance"
    /\ call.framesAtResolve = 2
    /\ Len(call.frames) = 2
    /\ call.frames[1].tuples # <<>>
    /\ call.frames[2].tuples = <<>>
    /\ call.pairs[1] \in DOMAIN collector.fundingRates["binance"]
    /\ SessionEntry(collector, call.pairs[1]).rate = call.frames[1].tuples[1].rate
    /\ LedgerEntry(collector.previousTimestamps, "binance", call.pairs[1]) = Undefined

\* C28: a frame that does not parse, or has no tuple for a pair of the session, leaves
\* the socket, the promise and the snapshot as they are; and whatever frames came
\* before, the last tuple a frame has for a pair of the session is recorded.
C28_BadFrameIsSkipped ==
    [][Len(call'.frames) = Len(call.frames) + 1 =>
          LET frame == call'.frames[Len(call'.frames)]
              relevant == {k \in 1..Len(frame.tuples) : Includes(call.pairs, frame.tuples[k].symbol)}
          IN  /\ ~frame.parses \/ relevant = {} =>
                    /\ call'.socket = call.socket
                    /\ call'.resolved = call.resolved
                    /\ collector' = collector
              /\ \A k \in relevant :
                    (\A j \in relevant : j > k => frame.tuples[j].symbol # frame.tuples[k].symbol)
                    => /\ frame.tuples[k].symbol \in DOMAIN collector'.fundingRates[call.exchange]
                       /\ SessionEntry(collector', frame.tuples[k].symbol).rate = frame.tuples[k].rate
                       /\ SessionEntry(collector', frame.tuples[k].symbol).timestamp
                              = Len(call'.frames)]_vars

C28_Witness ==
    /\ call.socket = "open"
    /\ call.resolved = "pending"
    /\ Len(call.frames) = 2
    /\ ~call.frames[1].parses
    /\ Len(call.frames[2].tuples) = 1
    /\ call.frames[2].tuples[1].symbol = call.pairs[1]
    /\ call.pairs[1] \in DOMAIN collector.fundingRates[call.exchange]
    /\ SessionEntry(collector, call.pairs[1]).rate = call.frames[2].tuples[1].rate
    /\ SessionEntry(collector, call.pairs[1]).timestamp = 2

\* C29: at every point of a session, and so after it, a symbol has an entry when a
\* tuple for it was recorded, and the entry has the rate of the last of them in
\* arrival order, frame after frame and tuple after tuple within a frame.
C29_LastTupleWins ==
    call.op = "fetchFundingRatesViaWebSocket" =>
        \A s \in ReportedSymbols(call.exchange) :
            LET ofSymbol == SelectSeq(SessionValidTuples(call.frames), LAMBDA t : t.symbol = s)
            IN  IF ofSymbol = <<>>
                THEN s \notin DOMAIN collector.fundingRates[call.exchange]
                ELSE /\ s \in DOMAIN collector.fundingRates[call.exchange]
                     /\ SessionEntry(collector, s).rate = ofSymbol[Len(ofSymbol)].rate

C29_Witness ==
    /\ call.op = "fetchFundingRatesViaWebSocket"
    /\ call.socket = "closed"
    /\ call.exchange = "gate"
    /\ Len(call.frames) = 2
    /\ Len(call.frames[1].tuples) = 2
    /\ Len(call.frames[2].tuples) = 2
    /\ \A k \in 1..2, j \in 1..2 : call.frames[k].tuples[j].symbol = call.pairs[1]
    /\ call.frames[1].tuples[2].rate = 1000
    /\ call.frames[2].tuples[1].rate = 1000
    /\ call.frames[2].tuples[2].rate = 0 - 500
    /\ SessionEntry(collector, call.pairs[1]).rate = 0 - 500

-----------------------------------------------------------------------------
(* Properties of the symbols retrieval writes, under Spec *)

\* C30: while the retrieval of a cycle runs and until its report is sent, every
\* symbol the snapshot has under an exchange is one of the cycle's pairs in that
\* exchange's format.
C30_WrittenSymbolsRequested ==
    pc \in {"rest", "ws", "send"} =>
        \A e \in ExchangeNames : \A s \in DOMAIN collector.fundingRates[e] :
            Includes(AdjustedPairs(e, pairs), s)

\* a symbol that was not asked for is under okx, after its REST loop recorded a rate
C30_UnrequestedOnlyByOkxRest ==
    pc \in {"rest", "ws", "send"} =>
        \A e \in ExchangeNames : \A s \in DOMAIN collector.fundingRates[e] :
            ~Includes(AdjustedPairs(e, pairs), s) => e = "okx" /\ attempt["okx"].ratesFetched

-----------------------------------------------------------------------------
(* Properties of the main loop, under Spec and LiveSpec *)

\* C31: in a cycle whose symbol discovery gave no pair, from the skip to the end of
\* its sleep, the collector is not written and no report is sent.
C31_EmptyInputSkipsCycle ==
    [][pc = "sleep" /\ pairs = <<>> => collector' = collector /\ crossRead' = crossRead]_vars

\* the steps of main in such a cycle: it goes to its sleep of push_interval seconds
\* with the collector, the report timers and the attempts as they were, and leaves
\* the sleep for the top of the loop when the timer has run down
C31_MainSkips ==
    /\ [][pc = "top" /\ pc' # "top" /\ pairs' = <<>> =>
              /\ pc' = "sleep"
              /\ sleep' = config.push_interval
              /\ collector' = collector
              /\ deferred' = deferred
              /\ crossRead' = crossRead
              /\ attempt' = attempt
              /\ cycle' = cycle]_vars
    /\ [][pc = "sleep" /\ pc' # "sleep" => pc' = "top" /\ sleep = 0]_vars

\* C32: the loop is at one of its positions in every state, and from every state it
\* comes to its top again: a cycle that failed or not is followed by its sleep and
\* the sleep by the next iteration.
C32_LoopNeverAborts ==
    /\ [](pc \in {"top", "rest", "ws", "send", "sleep"})
    /\ []<>(pc = "top")
    /\ [][pc = "top" /\ pc' # "top" => pc' \in {"rest", "sleep"}]_vars
    /\ [][(pc \in {"rest", "ws", "send"}) => pc' # "top"]_vars

C32_Witness ==
    /\ pc = "top"
    /\ cycle = MaxCycles
    /\ pairs # <<>>
    /\ \E e \in ExchangeNames : attempt[e].restError

-----------------------------------------------------------------------------
(* Properties of the timestamps retrieval hands to the collector, under Spec *)

\* C33: when fetchFundingRates has returned, every entry of the snapshot has the next
\* settlement time its exchange stated, and so has the ledger for its key.
C33_NextSettlementPassed ==
    pc = "send" =>
        \A e \in ExchangeNames : \A s \in DOMAIN collector.fundingRates[e] :
            /\ collector.fundingRates[e][s].nextFundingTimestamp = ReportedNextFundingTime
            /\ LedgerEntry(collector.previousTimestamps, e, s) = ReportedNextFundingTime

\* what retrieval does hand over: nothing, so the entry and the ledger have undefined
\* and the frequency is the default one
C33_NothingPassed ==
    pc = "send" =>
        \A e \in ExchangeNames : \A s \in DOMAIN collector.fundingRates[e] :
            /\ collector.fundingRates[e][s].nextFundingTimestamp = Undefined
            /\ LedgerEntry(collector.previousTimestamps, e, s) = Undefined
            /\ collector.fundingRates[e][s].frequencyPerDay = DefaultFrequency(e)

-----------------------------------------------------------------------------
(* Properties of frames that arrive late, under SessionSpec *)

\* C34: once the promise of a session has been resolved by the timeout, no step of
\* that session writes the snapshot or the ledger.
C34_NoWriteAfterTimeout ==
    [][call.op = "fetchFundingRatesViaWebSocket" /\ call.resolved = "timeout"
           => collector' = collector]_vars

\* writes of a session stop with the close of its socket
C34_NoWriteAfterClose ==
    [][call.op = "fetchFundingRatesViaWebSocket" /\ call.socket = "closed"
           => collector' = collector]_vars

-----------------------------------------------------------------------------
(* Properties of repeated and ordered updateRate calls, under CollectorSpec *)

\* the observation without the time it was written at
Derived(observation) ==
    [rate |-> observation.rate, apr |-> observation.apr,
     singleCycleNetRatePercent |-> observation.singleCycleNetRatePercent,
     dailyNetRatePercent |-> observation.dailyNetRatePercent,
     nextFundingTimestamp |-> observation.nextFundingTimestamp,
     frequencyPerDay |-> observation.frequencyPerDay,
     intervalHours |-> observation.intervalHours]

\* the step is an updateRate call with the arguments of the call before it
RepeatedCall ==
    /\ call.op = "updateRate"
    /\ call'.op = "updateRate"
    /\ call'.n = call.n + 1
    /\ call'.exchange = call.exchange
    /\ call'.symbol = call.symbol
    /\ call'.rate = call.rate
    /\ call'.next = call.next

\* C35: an updateRate call with the arguments of the call before it leaves the
\* observation that call left, but for the time of writing.
C35_UpdateRateIdempotent ==
    [][RepeatedCall =>
          Derived(collector'.fundingRates[call.exchange][call.symbol])
              = Derived(collector.fundingRates[call.exchange][call.symbol])]_vars

\* a repeated call changes neither the ledger nor anything but the interval fields
C35_RepeatKeepsLedger ==
    [][RepeatedCall =>
          /\ collector'.previousTimestamps = collector.previousTimestamps
          /\ collector'.fundingRates[call.exchange][call.symbol].rate
                 = collector.fundingRates[call.exchange][call.symbol].rate
          /\ collector'.fundingRates[call.exchange][call.symbol].singleCycleNetRatePercent
                 = collector.fundingRates[call.exchange][call.symbol].singleCycleNetRatePercent]_vars

\* C36: a timestamp stored under a key of the ledger stays, or is replaced by a later
\* timestamp; it is never replaced by null, by undefined or by an earlier one.
C36_LedgerOnlyNewer ==
    [][\A e \in DOMAIN collector.previousTimestamps :
          \A s \in DOMAIN collector.previousTimestamps[e] :
              collector.previousTimestamps[e][s] > 0 =>
                  LedgerEntry(collector'.previousTimestamps, e, s)
                      >= collector.previousTimestamps[e][s]]_vars

\* what the code does: the entry is replaced by whatever value is not identical to it
C36_LedgerAnyOther ==
    [][call'.op = "updateRate" /\ call'.n # call.n =>
          LedgerEntry(collector'.previousTimestamps, call'.exchange, call'.symbol) = call'.next]_vars

-----------------------------------------------------------------------------
(* Properties of the flag timestampsChanged, under Spec *)

\* C37: timestampsChanged is false when the retrieval of a cycle starts.
C37_FlagFalseAtCycleStart ==
    [][pc = "top" /\ pc' = "rest" => ~collector'.timestampsChanged]_vars

\* the flag is never taken back: no step of the program sets it to false
C37_FlagNeverReset ==
    [][collector.timestampsChanged => collector'.timestampsChanged]_vars

-----------------------------------------------------------------------------
(* Properties of the group a pair falls into, under GroupSpec *)

\* C38 as stated: for a base without USDT in it, the symbol in the format of any
\* exchange normalizes to the base.
C38_CleanedIsBase ==
    call.op = "cleanSymbol" /\ IndexOf(call.base, USDT) = 0 => call.cleaned = call.base

\* C38: for a base without USDT in it and without an underscore at its end, the symbol
\* in the format of any exchange normalizes to the base; so the symbols of one asset
\* have one group on all exchanges and those of two assets have two.
C38_CleanedIsBaseNoUnderscore ==
    call.op = "cleanSymbol" /\ IndexOf(call.base, USDT) = 0 /\ ~EndsWith(call.base, <<"_">>)
        => call.cleaned = call.base

C38_Witness ==
    /\ call.op = "cleanSymbol"
    /\ call.exchange = "okx"
    /\ call.base = <<"B", "E">>
    /\ call.symbol = <<"B", "E", "-">> \o USDT \o <<"-", "S", "W", "A", "P">>
    /\ call.cleaned = <<"B", "E">>

-----------------------------------------------------------------------------
(* Properties of the delivery of the reports, under Spec and LiveSpec *)

\* the task set in cycle c is one of a cycle whose single-leg delivery has finished
DeliveryFinished(c) == c < cycle \/ (c = cycle /\ pc \in {"sleep", "top"})

\* C39: the deferred task of a cycle is set by the step that ends the delivery of the
\* single-leg report, so every pending task, and every task that runs and computes
\* the cross-exchange report, belongs to a cycle whose single-leg delivery has
\* finished.
C39_SingleLegFirst ==
    /\ [](\A i \in 1..Len(deferred) : DeliveryFinished(deferred[i].cycle))
    /\ [][Len(deferred') > Len(deferred) =>
              /\ pc = "send"
              /\ pc' = "sleep"
              /\ deferred' = Append(deferred, [cycle |-> cycle, left |-> DEFER_DELAY])]_vars
    /\ [][Len(deferred') < Len(deferred) =>
              /\ DeliveryFinished(Head(deferred).cycle)
              /\ crossRead'.scheduled = Head(deferred).cycle]_vars

C39_Witness ==
    /\ crossRead.scheduled = 2
    /\ crossRead.read = 2
    /\ cycle = 2
    /\ pc = "sleep"
    /\ deferred = <<>>

\* C40: a call of sendTelegramMessage returns to main, which goes on to set the
\* deferred task; the retries left are between 0 and 3 and go down by one with every
\* failed attempt, so there are 4 attempts at most; and no step of the call writes the
\* collector.
C40_DeliveryTerminates ==
    /\ (pc = "send") ~> (pc = "sleep")
    /\ [](retries \in 0..RETRIES)
    /\ [][pc = "send" /\ retries' # retries =>
              \/ pc' = "send" /\ retries' = retries - 1 /\ collector' = collector
              \/ pc' = "sleep" /\ retries' = RETRIES /\ collector' = collector]_vars
    /\ [][pc = "send" /\ pc' # "send" =>
              /\ pc' = "sleep"
              /\ Len(deferred') = Len(deferred) + 1
              /\ collector' = collector]_vars

C40_Witness ==
    /\ pc = "send"
    /\ retries = 0
    /\ cycle = 1
    /\ \E e \in ExchangeNames : collector.fundingRates[e] # EmptyObject

====
